---- MODULE Spec2Model ----
(***************************************************************************)
(* Model of the OSC codec and the OSCClient request/response correlator of *)
(* src/src/osc.ts.                                                         *)
(*                                                                         *)
(* Buffers and strings are sequences of byte values (0-based offsets of    *)
(* the source are shifted by one when indexing).  A JavaScript argument    *)
(* value is a record [t, v]: t = "int" is an integer-valued number held as *)
(* <<hi, lo>> with value hi * 65536 + lo (lo in 0..65535), t = "str" a     *)
(* string held as its bytes, t = "bool" a boolean held as <<1>> or <<0>>,  *)
(* t = "flt" a number read from a float32 payload, held as its four bytes. *)
(***************************************************************************)
EXTENDS Integers, Sequences, FiniteSets, TLC

(* ------------------------------ bounds --------------------------------- *)

MaxQueries == 2
MaxSockets == 2
MaxTime == 2
MaxSends == 1
MaxEvents == 2
MaxPings == 2
MaxArgs == 2
MaxPolls == 3

(* this.timeout, in clock ticks *)
Timeout == 1

(* ------------------------------ codec ---------------------------------- *)

Comma == 44
TagI == 105
TagF == 102
TagS == 115
TagT == 84
TagFalse == 70

Zeros(n) == [i \in 1..n |-> 0]

(* mutant of oscString: the terminator and no padding *)
oscString_NoPad(s) == s \o <<0>>

oscString(s) ==
  LET str == s \o <<0>>
      padding == (4 - (Len(str) % 4)) % 4
  IN  str \o Zeros(padding)

(* a JavaScript number is m * 2^e with m odd, or m = 0 and e = 0; strings are
   their UTF-8 bytes *)
Num(m, e) == [t |-> "num", m |-> m, e |-> e]
StrVal(s) == [t |-> "str", v |-> s]
BoolVal(b) == [t |-> "bool", v |-> IF b THEN <<1>> ELSE <<0>>]
(* what readFloatBE gives for an exponent field of 255 *)
NotFinite == [t |-> "num", m |-> 0, e |-> 1024]

Pow2(n) == 2 ^ n
Abs(n) == IF n < 0 THEN -n ELSE n

(* the number n, or m * 2^e, in the form above *)
RECURSIVE Norm(_, _)
Norm(m, e) ==
  IF m = 0 THEN Num(0, 0) ELSE IF m % 2 = 0 THEN Norm(m \div 2, e + 1) ELSE Num(m, e)

(* how many bits the positive integer a has *)
RECURSIVE BitLen(_)
BitLen(a) == IF a = 0 THEN 0 ELSE 1 + BitLen(a \div 2)

(* Number.isInteger(arg) *)
NumberIsInteger(x) == x.e >= 0 /\ x # NotFinite

(* buf.writeInt32BE(arg) accepts -2^31 .. 2^31 - 1 and throws otherwise *)
InInt32Range(x) ==
  IF x.e = 0 THEN TRUE
  ELSE x.e <= 31 /\ x.m >= -Pow2(31 - x.e) /\ x.m <= Pow2(31 - x.e) - 1

writeInt32BE(x) ==
  IF x.e = 31 THEN <<128, 0, 0, 0>>
  ELSE LET val == x.m * Pow2(x.e)
           h0 == val \div 65536
           h == IF h0 < 0 THEN h0 + 65536 ELSE h0
           l == val % 65536
       IN  <<h \div 256, h % 256, l \div 256, l % 256>>

(* the 24-bit significand of the float32 nearest to a * 2^e, a > 0 having len
   bits: exact when len <= 24, else rounded to nearest, ties to even *)
Significand(a, len) ==
  IF len <= 24 THEN a * Pow2(24 - len)
  ELSE LET cut == Pow2(len - 24)
           q == a \div cut
           r == a % cut
       IN  IF 2 * r > cut \/ (2 * r = cut /\ q % 2 = 1) THEN q + 1 ELSE q

(* buf.writeFloatBE(arg) for a finite arg in the range of normal float32 values *)
writeFloatBE(x) ==
  IF x.m = 0 THEN <<0, 0, 0, 0>>
  ELSE LET a == Abs(x.m)
           len == BitLen(a)
           s0 == Significand(a, len)
           carry == s0 = Pow2(24)
           sig == IF carry THEN Pow2(23) ELSE s0
           biased == x.e + len - 1 + 127 + (IF carry THEN 1 ELSE 0)
           frac == sig - Pow2(23)
           sign == IF x.m < 0 THEN 128 ELSE 0
       IN  <<sign + biased \div 2, (biased % 2) * 128 + frac \div 65536,
             (frac \div 256) % 256, frac % 256>>

RECURSIVE BuildArgs(_, _, _, _)
BuildArgs(args, i, typeTag, argBuffers) ==
  IF i > Len(args) THEN [ok |-> TRUE, typeTag |-> typeTag, argBuffers |-> argBuffers]
  ELSE LET arg == args[i] IN
    IF arg.t = "num" THEN
      IF NumberIsInteger(arg) THEN
        IF InInt32Range(arg)
          THEN BuildArgs(args, i + 1, typeTag \o <<TagI>>, argBuffers \o writeInt32BE(arg))
          ELSE [ok |-> FALSE, typeTag |-> typeTag \o <<TagI>>, argBuffers |-> argBuffers]
      ELSE
        BuildArgs(args, i + 1, typeTag \o <<TagF>>, argBuffers \o writeFloatBE(arg))
    ELSE IF arg.t = "str" THEN
      BuildArgs(args, i + 1, typeTag \o <<TagS>>, argBuffers \o oscString(arg.v))
    ELSE
      BuildArgs(args, i + 1, typeTag \o <<IF arg.v = <<1>> THEN TagT ELSE TagFalse>>, argBuffers)

(* result: [ok |-> TRUE, buf |-> bytes], or ok = FALSE when a RangeError is thrown *)
buildOSCMessage(address, args) ==
  LET r == BuildArgs(args, 1, <<Comma>>, <<>>)
  IN  IF r.ok
        THEN [ok |-> TRUE, buf |-> oscString(address) \o oscString(r.typeTag) \o r.argBuffers]
        ELSE [ok |-> FALSE, buf |-> <<>>]

(* data.indexOf(0, from): 0-based offset of the first zero byte at or after from, else -1 *)
indexOf(data, from) ==
  LET hits == {i \in from..(Len(data) - 1) : data[i + 1] = 0}
  IN  IF hits = {} THEN -1 ELSE CHOOSE i \in hits : \A j \in hits : i <= j

(* data.subarray(start, end): a negative end counts from the end of the buffer *)
subarray(data, start, end) ==
  LET e0 == IF end < 0 THEN Len(data) + end ELSE end
      e == IF e0 < 0 THEN 0 ELSE IF e0 > Len(data) THEN Len(data) ELSE e0
      s == IF start > Len(data) THEN Len(data) ELSE start
  IN  IF e <= s THEN <<>> ELSE [i \in 1..(e - s) |-> data[s + i]]

Align(pos) == pos + ((4 - (pos % 4)) % 4)

(* data[pos], -1 standing for undefined *)
ByteAt(data, pos) == IF pos >= 0 /\ pos < Len(data) THEN data[pos + 1] ELSE -1

readInt32BE(data, pos) ==
  LET h == data[pos + 1] * 256 + data[pos + 2]
      l == data[pos + 3] * 256 + data[pos + 4]
  IN  Norm((IF h >= 32768 THEN h - 65536 ELSE h) * 65536 + l, 0)

(* data.readFloatBE(pos): the number the four bytes denote; -0 is the number 0 *)
readFloatBE(data, pos) ==
  LET sign == data[pos + 1] \div 128
      biased == (data[pos + 1] % 128) * 2 + data[pos + 2] \div 128
      frac == (data[pos + 2] % 128) * 65536 + data[pos + 3] * 256 + data[pos + 4]
      sig == IF biased = 0 THEN frac ELSE Pow2(23) + frac
      e == IF biased = 0 THEN -149 ELSE biased - 150
  IN  IF biased = 255 THEN NotFinite
      ELSE Norm(IF sign = 1 THEN -sig ELSE sig, e)

(* mutant of the argument loop: a boolean tag consumes 4 bytes of payload *)
RECURSIVE ParseArgs_BoolAdvances(_, _, _, _, _)
ParseArgs_BoolAdvances(data, typeTag, i, pos, args) ==
  IF i > Len(typeTag) THEN [ok |-> TRUE, args |-> args]
  ELSE LET t == typeTag[i] IN
    IF t = TagF \/ t = TagI THEN
      IF pos + 4 > Len(data) THEN [ok |-> FALSE, args |-> args]
      ELSE ParseArgs_BoolAdvances(data, typeTag, i + 1, pos + 4,
                     Append(args, IF t = TagF THEN readFloatBE(data, pos) ELSE readInt32BE(data, pos)))
    ELSE IF t = TagS THEN
      LET nullIdx == indexOf(data, pos)
      IN  ParseArgs_BoolAdvances(data, typeTag, i + 1, Align(nullIdx + 1),
                    Append(args, StrVal(subarray(data, pos, nullIdx))))
    ELSE IF t = TagT \/ t = TagFalse THEN
      ParseArgs_BoolAdvances(data, typeTag, i + 1, pos + 4, Append(args, BoolVal(t = TagT)))
    ELSE ParseArgs_BoolAdvances(data, typeTag, i + 1, pos, args)

RECURSIVE ParseArgs(_, _, _, _, _)
ParseArgs(data, typeTag, i, pos, args) ==
  IF i > Len(typeTag) THEN [ok |-> TRUE, args |-> args]
  ELSE LET t == typeTag[i] IN
    IF t = TagF \/ t = TagI THEN
      IF pos + 4 > Len(data) THEN [ok |-> FALSE, args |-> args]
      ELSE ParseArgs(data, typeTag, i + 1, pos + 4,
                     Append(args, IF t = TagF THEN readFloatBE(data, pos) ELSE readInt32BE(data, pos)))
    ELSE IF t = TagS THEN
      LET nullIdx == indexOf(data, pos)
      IN  ParseArgs(data, typeTag, i + 1, Align(nullIdx + 1),
                    Append(args, StrVal(subarray(data, pos, nullIdx))))
    ELSE IF t = TagT THEN ParseArgs(data, typeTag, i + 1, pos, Append(args, BoolVal(TRUE)))
    ELSE IF t = TagFalse THEN ParseArgs(data, typeTag, i + 1, pos, Append(args, BoolVal(FALSE)))
    ELSE ParseArgs(data, typeTag, i + 1, pos, args)

(* result: [ok |-> TRUE, address, args], or ok = FALSE when a read past the end throws *)
parseOSCMessage(data) ==
  LET nullIdx == indexOf(data, 0)
      address == subarray(data, 0, nullIdx)
      pos == Align(nullIdx + 1)
  IN  IF ByteAt(data, pos) # Comma
        THEN [ok |-> TRUE, address |-> address, args |-> <<>>]
        ELSE LET nullIdx2 == indexOf(data, pos)
                 typeTag == subarray(data, pos, nullIdx2)
                 r == ParseArgs(data, typeTag, 2, Align(nullIdx2 + 1), <<>>)
             IN  [ok |-> r.ok, address |-> address, args |-> r.args]

(* --------------------------- input domains ------------------------------ *)

(* "/a" and "/b" *)
Addresses == {<<47, 97>>, <<47, 98>>}

(* argument lists of send and query: 1, and 2^31, which writeInt32BE rejects *)
CallArgs == {<<Num(1, 0)>>, <<Num(1, 31)>>}

(* what the remote side sends back: its reply to the q-th query call carries the
   integer q, and a datagram nobody asked for carries 0 *)
ReplyArgs == {<<Norm(q, 0)>> : q \in 0..MaxQueries}

(* a type tag announcing an int whose payload is missing, and a buffer with no NUL *)
Malformed == {<<47, 97, 0, 0, 44, 105, 0, 0>>, <<47, 97>>}

InboundData == {buildOSCMessage(a, args).buf : a \in Addresses, args \in ReplyArgs} \cup Malformed

(* every inbound buffer with what parseOSCMessage makes of it *)
Decoded == {[data |-> d, m |-> parseOSCMessage(d)] : d \in InboundData}

NoMessage == [address |-> <<>>, args |-> <<>>]

(* no Message or buffer is under test *)
NoCodec == [phase |-> "idle", msg |-> NoMessage, buf |-> <<>>, ok |-> TRUE, out |-> NoMessage]

(* the fields of a client that was constructed and not used yet *)
Fresh ==
  [socket |-> 0, sockState |-> [s \in 1..MaxSockets |-> "none"], responseHandlers |-> {},
   sent |-> 0, messageEvents |-> 0]

(* the OSCClient instances of the process, and options.receivePort ?? 11001 *)
Instances == {1, 2}
DefaultReceivePort == 11001

(* this.host, the remote host datagrams are sent to, and the hosts a datagram
   that arrives on the receive port can come from *)
Host == "127.0.0.1"
Senders == {Host, "192.0.2.7"}
NoSender == "none"

(* a new Song: listeners is an empty Map, pollInterval is null, no interval timer
   is armed, no unsubscribe function was returned *)
NoListeners == [listeners |-> {}, pollInterval |-> 0, timers |-> {}, started |-> 0,
                unsubscribes |-> {}]

(* ------------------------------- state --------------------------------- *)

VARIABLES
  socket,            \* this.socket: 0 for null, else the id of a created socket
  sockState,         \* per created dgram socket: none, binding, bound, unbound (the bind
                     \* failed), closed (closed while bound), dropped (closed unbound)
  responseHandlers,  \* this.responseHandlers: a set of [address, q] entries
  queries,           \* the promise, timer and history of every accepted query call
  now,               \* the clock, in ticks
  sent,              \* datagrams handed to socket.send
  lastErr,           \* what the call made in the latest step raised synchronously
                     \* ("none": nothing, or the step was no send or query call)
  messageEvents,     \* how many "message" events the receive callback has emitted
  pings,             \* the ping() calls made so far and what each returned
  codec,             \* a Message or buffer under test with what the codec made of it
  cur,               \* the OSCClient instance the variables above belong to
  parked,            \* the fields of the process's other OSCClient instance
  receivePort,       \* this.receivePort of each instance
  song,              \* the Song object's listeners, its poll timer and the timers armed
  rinfo              \* the sender of the datagram the "message" callback last ran for

(* what the methods and callbacks of the current client never touch *)
aux == <<pings, codec, cur, parked, receivePort, song, rinfo>>

(* the process runs: no exception has reached the event loop uncaught (Node ends
   the process when one does) *)
Alive == lastErr # "Uncaught"

vars == <<socket, sockState, responseHandlers, queries, now, sent, lastErr, messageEvents,
          pings, codec, cur, parked, receivePort, song, rinfo>>

Sockets == 1..MaxSockets
Created == {s \in Sockets : sockState[s] # "none"}
Issued == 1..Len(queries)

(* Map.get, Map.set and Map.delete of this.responseHandlers *)
MapHas(m, a) == \E e \in m : e.address = a
MapGet(m, a) == (CHOOSE e \in m : e.address = a).q
MapDelete(m, a) == {e \in m : e.address # a}
(* mutants of Map.set: one that keeps the entry already there, one that adds a
   second entry under the same key *)
MapSet_IfAbsent(m, a, q) == IF MapHas(m, a) THEN m ELSE m \cup {[address |-> a, q |-> q]}
MapSet_Keep(m, a, q) == m \cup {[address |-> a, q |-> q]}

MapSet(m, a, q) == MapDelete(m, a) \cup {[address |-> a, q |-> q]}

(* the promise's resolve and reject functions: only the first call settles it *)
Resolve(qs, q, msg) ==
  IF qs[q].state = "pending"
    THEN [qs EXCEPT ![q].state = "resolved", ![q].result = msg, ![q].calls = @ + 1]
    ELSE [qs EXCEPT ![q].calls = @ + 1]

Reject(qs, q, err) ==
  IF qs[q].state = "pending"
    THEN [qs EXCEPT ![q].state = "rejected", ![q].error = err, ![q].calls = @ + 1]
    ELSE [qs EXCEPT ![q].calls = @ + 1]

Init ==
  /\ socket = 0
  /\ sockState = [s \in Sockets |-> "none"]
  /\ responseHandlers = {}
  /\ queries = <<>>
  /\ now = 0
  /\ sent = 0
  /\ lastErr = "none"
  /\ messageEvents = 0
  /\ pings = <<>>
  /\ codec = NoCodec
  /\ cur = 1
  /\ parked = Fresh
  /\ receivePort = [i \in Instances |-> DefaultReceivePort]
  /\ song = NoListeners
  /\ rinfo = NoSender

(* ------------------------------ lifecycle ------------------------------ *)

(* connect(), its synchronous part: create the socket, assign it, start the bind *)
Connect ==
  LET s == Cardinality(Created) + 1 IN
  /\ Alive
  /\ s <= MaxSockets
  /\ socket' = s
  /\ sockState' = [sockState EXCEPT ![s] = "binding"]
  /\ lastErr' = "none"
  /\ UNCHANGED <<responseHandlers, queries, now, sent, messageEvents>>
  /\ UNCHANGED aux

(* this.receivePort is exclusive: no socket of the process is bound to it, be it
   one of this client or, when both have the same port, one of the other client *)
PortFree ==
  /\ \A o \in Sockets : sockState[o] # "bound"
  /\ receivePort[cur] = receivePort[3 - cur] => \A o \in Sockets : parked.sockState[o] # "bound"

(* the bind callback: emit "connect" and resolve connect()'s promise *)
BindOk(s) ==
  /\ Alive
  /\ sockState[s] = "binding"
  /\ PortFree
  /\ sockState' = [sockState EXCEPT ![s] = "bound"]
  /\ lastErr' = "none"
  /\ UNCHANGED <<socket, responseHandlers, queries, now, sent, messageEvents>>
  /\ UNCHANGED aux

(* the socket's "error" event for a failed bind: emit "error" and reject *)
BindError(s) ==
  /\ Alive
  /\ sockState[s] = "binding"
  /\ sockState' = [sockState EXCEPT ![s] = "unbound"]
  /\ lastErr' = "none"
  /\ UNCHANGED <<socket, responseHandlers, queries, now, sent, messageEvents>>
  /\ UNCHANGED aux

(* mutant of close(): rejects every pending request instead of leaving it alone *)
CloseQueries_Reject(qs) ==
  [q \in DOMAIN qs |->
     IF qs[q].state = "pending"
       THEN [qs[q] EXCEPT !.state = "rejected", !.error = "ConnectionClosed",
                          !.closedPending = TRUE]
       ELSE qs[q]]

(* what close() leaves of the pending requests: it does not touch them; the
   closedPending mark only records which queries were unresolved at a close() *)
CloseQueries(qs) ==
  [q \in DOMAIN qs |->
     IF qs[q].state = "pending" THEN [qs[q] EXCEPT !.closedPending = TRUE] ELSE qs[q]]

(* mutant of close(): closes the socket and keeps the reference to it *)
Close_KeepsSocket ==
  /\ Alive
  /\ IF socket # 0
       THEN sockState' = [sockState EXCEPT ![socket] =
                            IF @ = "bound" THEN "closed" ELSE "dropped"]
       ELSE UNCHANGED sockState
  /\ queries' = CloseQueries(queries)
  /\ lastErr' = "none"
  /\ UNCHANGED <<socket, responseHandlers, now, sent, messageEvents>>
  /\ UNCHANGED aux

(* close(): close and forget the current socket, if there is one *)
Close ==
  /\ Alive
  /\ IF socket # 0
       THEN /\ sockState' = [sockState EXCEPT ![socket] =
                                IF @ = "bound" THEN "closed" ELSE "dropped"]
            /\ socket' = 0
       ELSE UNCHANGED <<socket, sockState>>
  /\ queries' = CloseQueries(queries)
  /\ lastErr' = "none"
  /\ UNCHANGED <<responseHandlers, now, sent, messageEvents>>
  /\ UNCHANGED aux

(* --------------------------- send and query ---------------------------- *)

Transmitted == Cardinality({q \in Issued : queries[q].transmitted})

(* the guard of send and query: this.socket is null *)
NotConnected == socket = 0

(* mutant of send: the datagram is handed to the socket twice *)
Send_Twice(address, args) ==
  /\ Alive
  /\ sent - Transmitted < MaxSends
  /\ IF NotConnected
       THEN /\ lastErr' = "NotConnected"
            /\ UNCHANGED sent
       ELSE IF buildOSCMessage(address, args).ok
         THEN /\ lastErr' = "none"
              /\ sent' = sent + 2
         ELSE /\ lastErr' = "RangeError"
              /\ UNCHANGED sent
  /\ UNCHANGED <<socket, sockState, responseHandlers, queries, now, messageEvents>>
  /\ UNCHANGED aux

(* send(address, ...args): throws when this.socket is null, else encodes (which
   may throw) and hands one datagram to the socket *)
Send(address, args) ==
  /\ Alive
  /\ sent - Transmitted < MaxSends
  /\ IF NotConnected
       THEN /\ lastErr' = "NotConnected"
            /\ UNCHANGED sent
       ELSE IF buildOSCMessage(address, args).ok
         THEN /\ lastErr' = "none"
              /\ sent' = sent + 1
         ELSE /\ lastErr' = "RangeError"
              /\ UNCHANGED sent
  /\ UNCHANGED <<socket, sockState, responseHandlers, queries, now, messageEvents>>
  /\ UNCHANGED aux

(* mutant of the timer's delay: due at once *)
TimerDeadline_Immediate(t) == t

(* the time the query's timer is due when armed at time t *)
TimerDeadline(t) == t + Timeout

NewQuery(address, ok) ==
  [address |-> address, transmitted |-> ok,
   state |-> IF ok THEN "pending" ELSE "rejected",
   error |-> IF ok THEN "none" ELSE "RangeError",
   result |-> NoMessage, calls |-> 0,
   timer |-> "armed", deadline |-> TimerDeadline(now), issuedAt |-> now,
   conn |-> sockState[socket] = "bound", closedPending |-> FALSE, inst |-> cur]

(* what the promise of query(address, ...args) is rejected with before query
   returns: "none" when it is pending then *)
QueryError(address, args) ==
  IF NotConnected THEN "NotConnected"
  ELSE IF buildOSCMessage(address, args).ok THEN "none" ELSE "RangeError"

(* query(address, ...args): rejects when this.socket is null; else arms the timer,
   registers the handler under the address and sends; an exception of send
   rejects the promise and leaves timer and handler in place *)
QueryCall(address, args) ==
  /\ Alive
  /\ IF NotConnected
    THEN UNCHANGED <<socket, sockState, responseHandlers, queries, now, sent, messageEvents>>
    ELSE LET ok == buildOSCMessage(address, args).ok
             q == Len(queries) + 1
         IN  /\ q <= MaxQueries
             /\ now + Timeout <= MaxTime
             /\ queries' = Append(queries, NewQuery(address, ok))
             /\ responseHandlers' = MapSet(responseHandlers, address, q)
             /\ sent' = IF ok THEN sent + 1 ELSE sent
             /\ UNCHANGED <<socket, sockState, now, messageEvents>>

(* a query call made by the application; lastErr is what its promise is rejected
   with before it returns *)
Query(address, args) ==
  /\ QueryCall(address, args)
  /\ lastErr' = QueryError(address, args)
  /\ UNCHANGED aux

(* the timer callback of query q: delete the entry under q's address, reject *)
TimerFire(q) ==
  /\ Alive
  /\ q \in Issued
  /\ queries[q].inst = cur
  /\ queries[q].timer = "armed"
  /\ now >= queries[q].deadline
  /\ responseHandlers' = MapDelete(responseHandlers, queries[q].address)
  /\ queries' = Reject([queries EXCEPT ![q].timer = "fired"], q, "Timeout")
  /\ lastErr' = "none"
  /\ UNCHANGED <<socket, sockState, now, sent, messageEvents>>
  /\ UNCHANGED aux

Tick ==
  /\ Alive
  /\ now < MaxTime
  /\ now' = now + 1
  /\ lastErr' = "none"
  /\ UNCHANGED <<socket, sockState, responseHandlers, queries, sent, messageEvents>>
  /\ UNCHANGED aux

(* ------------------------------ receive -------------------------------- *)

(* the query the remote side was answering with msg, 0 when msg is unsolicited *)
Origin(msg) ==
  IF Len(msg.args) = 1 /\ msg.args[1].t = "num" /\ msg.args[1].e \in 0..8 /\ msg.args[1].m \in 0..8
    THEN msg.args[1].m * Pow2(msg.args[1].e)
    ELSE 0

(* the remote side answers only what was transmitted to it, under the same address *)
Producible(msg) ==
  \/ Origin(msg) = 0
  \/ /\ Origin(msg) \in Issued
     /\ queries[Origin(msg)].transmitted
     /\ queries[Origin(msg)].address = msg.address

(* mutants of the handler lookup: one that settles nothing, one that leaves the
   timer armed *)
Dispatch_NoResolve(msg) ==
  IF MapHas(responseHandlers, msg.address)
    THEN LET q == MapGet(responseHandlers, msg.address)
         IN  [handlers |-> MapDelete(responseHandlers, msg.address),
              queries |-> [queries EXCEPT ![q].timer = IF @ = "armed" THEN "cleared" ELSE @]]
    ELSE [handlers |-> responseHandlers, queries |-> queries]

(* mutant of the handler lookup: the entry stays in the map after its resolve *)
Dispatch_KeepsEntry(msg) ==
  IF MapHas(responseHandlers, msg.address)
    THEN LET q == MapGet(responseHandlers, msg.address)
         IN  [handlers |-> responseHandlers,
              queries |-> Resolve([queries EXCEPT ![q].timer =
                                     IF @ = "armed" THEN "cleared" ELSE @],
                                  q, msg)]
    ELSE [handlers |-> responseHandlers, queries |-> queries]

Dispatch_KeepsTimer(msg) ==
  IF MapHas(responseHandlers, msg.address)
    THEN LET q == MapGet(responseHandlers, msg.address)
         IN  [handlers |-> MapDelete(responseHandlers, msg.address),
              queries |-> Resolve(queries, q, msg)]
    ELSE [handlers |-> responseHandlers, queries |-> queries]

(* mutant of the handler lookup: a datagram that matches no pending request
   settles some other one *)
Dispatch_Fallback(msg) ==
  IF responseHandlers # {}
    THEN LET e == IF MapHas(responseHandlers, msg.address)
                    THEN CHOOSE x \in responseHandlers : x.address = msg.address
                    ELSE CHOOSE x \in responseHandlers : TRUE
         IN  [handlers |-> responseHandlers \ {e},
              queries |-> Resolve([queries EXCEPT ![e.q].timer =
                                     IF @ = "armed" THEN "cleared" ELSE @],
                                  e.q, msg)]
    ELSE [handlers |-> responseHandlers, queries |-> queries]

(* lines 159-164: look up the handler under msg.address; when there is one, clear
   its timer, delete the entry and call its resolve *)
Dispatch(msg) ==
  IF MapHas(responseHandlers, msg.address)
    THEN LET q == MapGet(responseHandlers, msg.address)
         IN  [handlers |-> MapDelete(responseHandlers, msg.address),
              queries |-> Resolve([queries EXCEPT ![q].timer =
                                     IF @ = "armed" THEN "cleared" ELSE @],
                                  q, msg)]
    ELSE [handlers |-> responseHandlers, queries |-> queries]

(* this.emit("message", msg) and this.emit("error", err) *)
MessageEvent(msg) == [type |-> "message", msg |-> msg]
ErrorEvent == [type |-> "error", msg |-> NoMessage]

(* the try block of the callback throws: parseOSCMessage does, or a listener of
   "message" does *)
Throws(d, listenerThrows) == ~d.m.ok \/ listenerThrows

(* mutants of what the callback emits: "message" only for a datagram no pending
   request matches, and "message" twice *)
Emitted_Unmatched(d, listenerThrows) ==
  (IF d.m.ok /\ ~MapHas(responseHandlers, d.m.address)
     THEN <<MessageEvent([address |-> d.m.address, args |-> d.m.args])>> ELSE <<>>)
    \o (IF Throws(d, listenerThrows) THEN <<ErrorEvent>> ELSE <<>>)

Emitted_Twice(d, listenerThrows) ==
  (IF d.m.ok
     THEN <<MessageEvent([address |-> d.m.address, args |-> d.m.args]),
            MessageEvent([address |-> d.m.address, args |-> d.m.args])>>
     ELSE <<>>)
    \o (IF Throws(d, listenerThrows) THEN <<ErrorEvent>> ELSE <<>>)

(* the events the callback emits for datagram d, in order: "message" with the
   decoded Message when the buffer decodes, then "error" from the catch block
   when the try block threw *)
Emitted(d, listenerThrows) ==
  (IF d.m.ok THEN <<MessageEvent([address |-> d.m.address, args |-> d.m.args])>> ELSE <<>>)
    \o (IF Throws(d, listenerThrows) THEN <<ErrorEvent>> ELSE <<>>)

(* how many events of the given type a sequence of events holds *)
CountEvents(events, type) == Cardinality({i \in 1..Len(events) : events[i].type = type})

(* what leaves the callback: this.emit("error", err) in the catch block throws err
   itself when no listener of "error" is registered *)
Escapes(d, listenerThrows, errorListener) ==
  IF Throws(d, listenerThrows) /\ ~errorListener THEN "Uncaught" ELSE "none"

(* the "message" callback of socket s for datagram d.data; listenerThrows tells
   whether a listener of the "message" event throws, errorListener whether a
   listener of the "error" event is registered.  A decode error or a listener's
   exception is caught and the handler lookup is skipped; lastErr is what leaves
   the callback *)
ReceiveCall(s, d, listenerThrows, errorListener) ==
  LET msg == [address |-> d.m.address, args |-> d.m.args]
  IN  /\ Alive
      /\ sockState[s] = "bound"
      /\ lastErr' = Escapes(d, listenerThrows, errorListener)
      /\ messageEvents' = messageEvents + CountEvents(Emitted(d, listenerThrows), "message")
      /\ IF d.m.ok
           THEN Producible(msg) /\ messageEvents < MaxEvents
           ELSE ~listenerThrows  \* no listener runs
      /\ IF Throws(d, listenerThrows)
           THEN UNCHANGED <<responseHandlers, queries>>
           ELSE /\ errorListener  \* which plays no part here
                /\ queries' = Dispatch(msg).queries
                /\ responseHandlers' = Dispatch(msg).handlers
      /\ UNCHANGED <<socket, sockState, now, sent>>

(* the callback run for a datagram whose sender plays no part in the model *)
Receive(s, d, listenerThrows, errorListener) ==
  /\ ReceiveCall(s, d, listenerThrows, errorListener)
  /\ UNCHANGED aux

(* the callback run for a datagram from sender: socket.on("message", (data) => ...)
   takes the data alone, the second argument of the event (rinfo, with the
   sender's address) is not looked at *)
ReceiveFrom(sender, s, d, listenerThrows, errorListener) ==
  /\ ReceiveCall(s, d, listenerThrows, errorListener)
  /\ rinfo' = sender
  /\ UNCHANGED <<pings, codec, cur, parked, receivePort, song>>

(* the sockets on which datagrams arrive, and the datagrams that decode *)
Bound == {s \in Sockets : sockState[s] = "bound"}
Decodable == {d \in Decoded : d.m.ok}

(* ---------------------------- specification ---------------------------- *)

Next ==
  \/ Connect
  \/ \E s \in Sockets : BindOk(s)
  \/ \E s \in Sockets : BindError(s)
  \/ Close
  \/ \E a \in Addresses, args \in CallArgs : Send(a, args)
  \/ \E a \in Addresses, args \in CallArgs : Query(a, args)
  \/ \E q \in 1..MaxQueries : TimerFire(q)
  \/ Tick
  \/ \E s \in Sockets, d \in Decoded, thr, lis \in BOOLEAN : Receive(s, d, thr, lis)

Spec == Init /\ [][Next]_vars

(* the same operations for a client on which a listener of "error" is registered,
   as the Ableton facade registers one in its constructor *)
FairNext ==
  \/ Connect
  \/ \E s \in Sockets : BindOk(s)
  \/ \E s \in Sockets : BindError(s)
  \/ Close
  \/ \E a \in Addresses, args \in CallArgs : Send(a, args)
  \/ \E a \in Addresses, args \in CallArgs : Query(a, args)
  \/ \E q \in 1..MaxQueries : TimerFire(q)
  \/ Tick
  \/ \E s \in Sockets, d \in Decoded, thr \in BOOLEAN : Receive(s, d, thr, TRUE)

(* timers that are due do fire and the clock advances *)
FairSpec ==
  Init /\ [][FairNext]_vars /\ WF_vars(Tick) /\ \A q \in 1..MaxQueries : WF_vars(TimerFire(q))

(* -------------------------------- ping --------------------------------- *)

(* "/live/test" and "ok" *)
PingAddress == <<47, 108, 105, 118, 101, 47, 116, 101, 115, 116>>
Ok == <<111, 107>>

(* what may come back under "/live/test": "ok", "no", true, and no argument *)
PingReplies == {<<StrVal(Ok)>>, <<StrVal(<<110, 111>>)>>, <<BoolVal(TRUE)>>, <<>>}

PingDecoded ==
  {[data |-> buildOSCMessage(PingAddress, args).buf,
    m |-> parseOSCMessage(buildOSCMessage(PingAddress, args).buf)] : args \in PingReplies}

(* ping(), up to its await: it calls this.query("/live/test") and waits for the
   promise; q is the query it waits for, 0 when query rejected at once *)
Ping ==
  /\ Len(pings) < MaxPings
  /\ QueryCall(PingAddress, <<>>)
  /\ pings' = Append(pings, [q |-> IF NotConnected THEN 0 ELSE Len(queries) + 1,
                             ret |-> "pending"])
  /\ lastErr' = "none"
  /\ UNCHANGED <<codec, cur, parked, receivePort, song, rinfo>>

(* response.args[0] === "ok" *)
FirstArgIsOk(msg) == Len(msg.args) >= 1 /\ msg.args[1] = StrVal(Ok)

(* mutant of ping(): no catch block, a rejection of the query reaches the caller *)
PingReturn_NoCatch(q) ==
  IF q # 0 /\ queries[q].state = "resolved"
    THEN IF FirstArgIsOk(queries[q].result) THEN "true" ELSE "false"
    ELSE "error"

(* mutant of ping(): any reply counts *)
PingReturn_AnyReply(q) ==
  IF q # 0 /\ queries[q].state = "resolved" THEN "true" ELSE "false"

(* what ping() returns once the promise of its query is settled: the comparison
   when it resolved, false from the catch block when it was rejected *)
PingReturn(q) ==
  IF q # 0 /\ queries[q].state = "resolved"
    THEN IF FirstArgIsOk(queries[q].result) THEN "true" ELSE "false"
    ELSE "false"

(* ping() after its await: the k-th call resumes when its query is settled *)
PingResume(k) ==
  /\ Alive
  /\ k \in 1..Len(pings)
  /\ pings[k].ret = "pending"
  /\ IF pings[k].q = 0 THEN TRUE ELSE queries[pings[k].q].state # "pending"
  /\ pings' = [pings EXCEPT ![k].ret = PingReturn(pings[k].q)]
  /\ lastErr' = "none"
  /\ UNCHANGED <<socket, sockState, responseHandlers, queries, now, sent, messageEvents>>
  /\ UNCHANGED <<codec, cur, parked, receivePort, song, rinfo>>

PingNext ==
  \/ Connect
  \/ \E s \in Sockets : BindOk(s)
  \/ Close
  \/ Ping
  \/ \E k \in 1..MaxPings : PingResume(k)
  \/ \E q \in 1..MaxQueries : TimerFire(q)
  \/ Tick
  \/ \E s \in Sockets, d \in PingDecoded, thr \in BOOLEAN : Receive(s, d, thr, TRUE)

(* an application that does nothing but connect, ping and close *)
PingSpec == Init /\ [][PingNext]_vars

(* ---------------------------- two instances ---------------------------- *)

(* the receive ports two instances may be constructed with *)
Ports == {DefaultReceivePort, 11002}

(* mutant: the two clients share one map of response handlers *)
Switch_SharedMap ==
  /\ Alive
  /\ cur' = 3 - cur
  /\ parked' = [socket |-> socket, sockState |-> sockState, responseHandlers |-> {},
                sent |-> sent, messageEvents |-> messageEvents]
  /\ socket' = parked.socket
  /\ sockState' = parked.sockState
  /\ sent' = parked.sent
  /\ messageEvents' = parked.messageEvents
  /\ lastErr' = "none"
  /\ UNCHANGED <<responseHandlers, queries, now, pings, codec, receivePort, song, rinfo>>

(* the event loop turns to the other client: the next call or callback is one of
   its own, on its own fields *)
Switch ==
  /\ Alive
  /\ cur' = 3 - cur
  /\ parked' = [socket |-> socket, sockState |-> sockState,
                responseHandlers |-> responseHandlers,
                sent |-> sent, messageEvents |-> messageEvents]
  /\ socket' = parked.socket
  /\ sockState' = parked.sockState
  /\ responseHandlers' = parked.responseHandlers
  /\ sent' = parked.sent
  /\ messageEvents' = parked.messageEvents
  /\ lastErr' = "none"
  /\ UNCHANGED <<queries, now, pings, codec, receivePort, song, rinfo>>

(* two clients, as createMultiple constructs one client per config: the first
   with the default receive port, the second with the default or another one *)
TwoInit ==
  /\ socket = 0
  /\ sockState = [s \in Sockets |-> "none"]
  /\ responseHandlers = {}
  /\ queries = <<>>
  /\ now = 0
  /\ sent = 0
  /\ lastErr = "none"
  /\ messageEvents = 0
  /\ pings = <<>>
  /\ codec = NoCodec
  /\ cur = 1
  /\ parked = Fresh
  /\ receivePort \in {f \in [Instances -> Ports] : f[1] = DefaultReceivePort}
  /\ song = NoListeners
  /\ rinfo = NoSender

(* each client connects once and queries; datagrams arrive at both *)
TwoNext ==
  \/ Created = {} /\ Connect
  \/ \E s \in Sockets : BindOk(s)
  \/ \E s \in Sockets : BindError(s)
  \/ \E a \in Addresses : Query(a, <<Num(1, 0)>>)
  \/ \E q \in 1..MaxQueries : TimerFire(q)
  \/ Tick
  \/ \E s \in Sockets, d \in Decodable : Receive(s, d, FALSE, TRUE)
  \/ Switch

TwoSpec == TwoInit /\ [][TwoNext]_vars

(* ------------------------------- codec --------------------------------- *)

(* "/a", "/ab", "/abc" and "/abcd": every length modulo 4 *)
CodecAddresses == {<<47, 97>>, <<47, 97, 98>>, <<47, 97, 98, 99>>, <<47, 97, 98, 99, 100>>}

(* 0, 3.0, -1, 2^31 - 1, -2^31, 2^31, 4.5, -0.75 and 8388608.5, which no float32
   holds; "", "abc", "abcd" and a string with a NUL inside; true and false *)
CodecValues ==
  {Num(0, 0), Num(3, 0), Num(-1, 0), Num(2147483647, 0), Num(-1, 31), Num(1, 31),
   Num(9, -1), Num(-3, -2), Num(16777217, -1),
   StrVal(<<>>), StrVal(<<97, 98, 99>>), StrVal(<<97, 98, 99, 100>>), StrVal(<<97, 0, 98>>),
   BoolVal(TRUE), BoolVal(FALSE)}

CodecArgs == UNION {[1..n -> CodecValues] : n \in 0..MaxArgs}

CodecMessages == {[address |-> a, args |-> args] : a \in CodecAddresses, args \in CodecArgs}

(* every prefix of the encoding of "/a" with an int, a float, a string *)
CodecBuffers ==
  UNION {{SubSeq(b, 1, n) : n \in 0..Len(b)} :
           b \in {buildOSCMessage(<<47, 97>>, <<v>>).buf :
                    v \in {Num(3, 0), Num(9, -1), StrVal(<<97, 98, 99>>)}}}

CodecInit ==
  /\ socket = 0
  /\ sockState = [s \in Sockets |-> "none"]
  /\ responseHandlers = {}
  /\ queries = <<>>
  /\ now = 0
  /\ sent = 0
  /\ lastErr = "none"
  /\ messageEvents = 0
  /\ pings = <<>>
  /\ cur = 1
  /\ parked = Fresh
  /\ receivePort = [i \in Instances |-> DefaultReceivePort]
  /\ song = NoListeners
  /\ rinfo = NoSender
  /\ codec \in {[NoCodec EXCEPT !.phase = "message", !.msg = m] : m \in CodecMessages}
               \cup {[NoCodec EXCEPT !.phase = "buffer", !.buf = b] : b \in CodecBuffers}

(* buildOSCMessage(address, ...args) applied to the Message under test; ok tells
   whether it returned *)
Encode ==
  /\ codec.phase = "message"
  /\ codec' = [codec EXCEPT !.phase = "encoded",
                            !.ok = buildOSCMessage(codec.msg.address, codec.msg.args).ok,
                            !.buf = buildOSCMessage(codec.msg.address, codec.msg.args).buf]
  /\ UNCHANGED <<socket, sockState, responseHandlers, queries, now, sent, lastErr,
                 messageEvents, pings, cur, parked, receivePort, song, rinfo>>

(* parseOSCMessage(data) applied to the encoded Message or to the buffer under
   test; ok tells whether it returned *)
Decode ==
  /\ codec.phase \in {"encoded", "buffer"}
  /\ codec.ok
  /\ codec' = [codec EXCEPT !.phase = IF codec.phase = "buffer" THEN "parsed" ELSE "decoded",
                            !.ok = parseOSCMessage(codec.buf).ok,
                            !.out = [address |-> parseOSCMessage(codec.buf).address,
                                     args |-> parseOSCMessage(codec.buf).args]]
  /\ UNCHANGED <<socket, sockState, responseHandlers, queries, now, sent, lastErr,
                 messageEvents, pings, cur, parked, receivePort, song, rinfo>>

CodecNext == Encode \/ Decode

CodecSpec == CodecInit /\ [][CodecNext]_vars

(* ------------------------- vocabulary of the claims -------------------- *)

Max(S) == CHOOSE x \in S : \A y \in S : x >= y

Pending(q) == q \in Issued /\ queries[q].state = "pending"

(* q's record is the entry of this.responseHandlers under q's address *)
InSlot(q) == [address |-> queries[q].address, q |-> q] \in responseHandlers

Msg(d) == [address |-> d.m.address, args |-> d.m.args]

(* a step in which socket s receives d, d decodes, no listener throws, and the
   callback reaches the lookup of the pending handler *)
Dispatched(s, d) ==
  d.m.ok /\ messageEvents' = messageEvents + 1 /\ Receive(s, d, FALSE, TRUE)

(* a step that emits a "message" event: some datagram was received and decoded *)
Emits == messageEvents' = messageEvents + 1

SameAddress(q, p) == queries[q].address = queries[p].address

(* q's promise is rejected with Timeout in this step, no earlier than this.timeout
   after the query call *)
TimesOut(q) ==
  /\ queries'[q].state = "rejected"
  /\ queries'[q].error = "Timeout"
  /\ now >= queries[q].issuedAt + Timeout

(* every query call so far was made on a bound socket and was transmitted *)
AllRegular == \A q \in Issued : queries[q].conn /\ queries[q].transmitted

(* ------------------------------- C1 ------------------------------------ *)

(* C1, as stated: whenever a datagram whose decoded address equals the address of
   a query issued while Connected is received while that query is unresolved, the
   query resolves with exactly that decoded Message.  (Stated for runs in which
   every query was issued on a bound socket and transmitted, and no listener
   throws.) *)
C1_Original ==
  [][\A s \in Sockets, d \in Decoded :
       (Emits /\ AllRegular /\ Dispatched(s, d)) =>
         \A q \in Issued :
           (Pending(q) /\ queries[q].address = d.m.address) =>
             (queries'[q].state = "resolved" /\ queries'[q].result = Msg(d))]_vars

(* C1, amended: whenever the receive callback looks up the pending record for a
   decoded address and finds the record of a still unresolved query, that query
   resolves with exactly that decoded Message. *)
C1_Amended ==
  [][\A s \in Sockets, d \in Decoded :
       (Emits /\ Dispatched(s, d)) =>
         \A q \in Issued :
           (Pending(q) /\ InSlot(q) /\ queries[q].address = d.m.address) =>
             (queries'[q].state = "resolved" /\ queries'[q].result = Msg(d))]_vars

C1_Witness ==
  \E q \in Issued :
    /\ queries[q].conn
    /\ queries[q].state = "resolved"
    /\ queries[q].result.address = queries[q].address
    /\ Origin(queries[q].result) = q

(* ------------------------------- C2 ------------------------------------ *)

(* C2: every query is settled at most once: over all interleavings the code calls
   a query's resolve (with a Message) or its reject (with Timeout) at most once
   in total, so never both, and a settled outcome never changes. *)
C2_SettledOnce ==
  \A q \in Issued :
    /\ queries[q].calls <= 1
    /\ queries[q].state = "resolved" =>
         (queries[q].calls = 1 /\ queries[q].error = "none" /\ queries[q].timer = "cleared")
    /\ queries[q].error = "Timeout" =>
         (queries[q].calls = 1 /\ queries[q].result = NoMessage /\ queries[q].timer = "fired")
    /\ queries[q].state = "pending" => queries[q].calls = 0

C2_Witness ==
  \E q, p \in Issued :
    /\ q # p /\ SameAddress(q, p)
    /\ queries[q].state = "resolved"
    /\ queries[p].error = "Timeout"
    /\ messageEvents >= 2
    /\ socket = 0

(* ------------------------------- C3 ------------------------------------ *)

(* C3: a transmitted query is resolved only by a step that dispatches a datagram
   with its address; every unresolved query is eventually settled, so one that no
   matching datagram reaches is eventually rejected; and a rejection of an
   unresolved query is a Timeout that comes no earlier than this.timeout after
   the query call. *)
C3_Timeout ==
  /\ \A q \in 1..MaxQueries :
       Pending(q) ~> (q \in Issued /\ queries[q].state \in {"rejected", "resolved"})
  /\ [][\A q \in Issued :
          (Pending(q) /\ queries'[q].state = "resolved") =>
            \E s \in Sockets, d \in Decoded :
              Dispatched(s, d) /\ d.m.address = queries[q].address]_vars
  /\ [][\A q \in Issued :
          (Pending(q) /\ queries'[q].state = "rejected") => TimesOut(q)]_vars

C3_Witness ==
  \E q \in Issued :
    /\ queries[q].transmitted
    /\ queries[q].conn
    /\ queries[q].error = "Timeout"
    /\ messageEvents = 0

(* ------------------------------- C4 ------------------------------------ *)

(* C4, as stated: whenever a datagram with address A is received while at least
   one query to A is unresolved, the most recently issued unresolved query to A
   resolves with it.  (Stated for runs in which every query was issued on a bound
   socket and transmitted, and no listener throws.) *)
C4_Original ==
  [][\A s \in Sockets, d \in Decoded :
       (Emits /\ AllRegular /\ Dispatched(s, d)) =>
         LET U == {q \in Issued : Pending(q) /\ queries[q].address = d.m.address}
         IN  U # {} => (queries'[Max(U)].state = "resolved" /\ queries'[Max(U)].result = Msg(d))]_vars

(* C4, amended: a datagram with address A that reaches the pending lookup
   resolves no query other than the most recently issued query to A, and it
   resolves that one, with that datagram's Message, whenever it is unresolved and
   its pending record is still in place. *)
C4_Amended ==
  [][\A s \in Sockets, d \in Decoded :
       (Emits /\ Dispatched(s, d)) =>
         LET L == {q \in Issued : queries[q].address = d.m.address}
         IN  /\ \A q \in Issued :
                  (Pending(q) /\ queries'[q].state = "resolved") =>
                    (q = Max(L) /\ queries'[q].result = Msg(d))
             /\ (L # {} /\ Pending(Max(L)) /\ InSlot(Max(L))) =>
                  queries'[Max(L)].state = "resolved"]_vars

C4_Witness ==
  \E q, p \in Issued :
    /\ q < p /\ SameAddress(q, p)
    /\ queries[p].issuedAt < queries[q].deadline
    /\ queries[p].state = "resolved"
    /\ queries[q].state = "pending"

(* ------------------------------- C5 ------------------------------------ *)

(* C5, as stated: of two concurrent queries to one address, neither is resolved
   with the reply that the remote side produced for the other: a query is never
   resolved with the reply to a different query that is still unresolved. *)
C5_NoMisroute ==
  [][\A q \in Issued :
       (Emits /\ Pending(q) /\ queries'[q].state = "resolved") =>
         LET o == Origin(queries'[q].result)
         IN  o = 0 \/ o = q \/ ~(Pending(o) /\ queries[o].conn /\ queries[q].conn)]_vars

(* ------------------------------- C6 ------------------------------------ *)

(* C6: there is at most one pending record per address; a query call to A puts
   its own record in A's slot, replacing any other; a query to A that is
   unresolved when a later query to A exists can only stay unresolved or fail
   with Timeout no earlier than its own deadline; and a datagram for A that
   finds the later query's record resolves the later query and not the earlier. *)
C6_Replace ==
  /\ [](\A e1, e2 \in responseHandlers : e1.address = e2.address => e1 = e2)
  /\ [][\A a \in Addresses, args \in CallArgs :
          (~NotConnected /\ Len(queries') = Len(queries) + 1 /\ Query(a, args)) =>
            \A e \in responseHandlers' : e.address = a <=> e.q = Len(queries')]_vars
  /\ [][\A q, p \in Issued :
          (q < p /\ SameAddress(q, p) /\ Pending(q)) =>
            (queries'[q].state = "pending" \/ TimesOut(q))]_vars
  /\ [][\A s \in Sockets, d \in Decoded :
          (Emits /\ Dispatched(s, d)) =>
            \A q, p \in Issued :
              (q < p /\ SameAddress(q, p) /\ queries[p].address = d.m.address
                 /\ Pending(q) /\ Pending(p) /\ InSlot(p)) =>
                (queries'[p].state = "resolved" /\ queries'[q].state = "pending")]_vars

C6_Witness ==
  \E q, p \in Issued :
    /\ q < p /\ SameAddress(q, p)
    /\ queries[p].issuedAt < queries[q].deadline
    /\ queries[q].conn /\ queries[p].conn
    /\ queries[q].error = "Timeout"
    /\ queries[p].state = "resolved"

(* ------------------------------- C7 ------------------------------------ *)

(* no connect() has been called yet, or close() was called after the latest one *)
Idle ==
  \/ Created = {}
  \/ sockState[Cardinality(Created)] \in {"closed", "dropped"}

(* C7: a send or query call made before any connect(), or after close(), raises
   NotConnected, hands no datagram to a socket and registers nothing. *)
C7_NotConnected ==
  [][Idle =>
       \A a \in Addresses, args \in CallArgs :
         /\ Send(a, args) => (lastErr' = "NotConnected" /\ sent' = sent)
         /\ Query(a, args) => (lastErr' = "NotConnected" /\ sent' = sent
                               /\ queries' = queries
                               /\ responseHandlers' = responseHandlers)]_vars

C7_Witness ==
  /\ lastErr = "NotConnected"
  /\ \E s \in Sockets : sockState[s] = "closed"
  /\ Idle

(* ------------------------------- C8 ------------------------------------ *)

(* the only connect() so far has failed with a bind error *)
BindFailed == socket = 1 /\ Created = {1} /\ sockState[1] = "unbound"

(* C8, as stated: after connect() has failed with a bind error a send raises
   NotConnected and hands no datagram to a socket, as before any connect(). *)
C8_BindFailure ==
  [][BindFailed =>
       \A a \in Addresses, args \in CallArgs :
         Send(a, args) => (lastErr' = "NotConnected" /\ sent' = sent)]_vars

(* ------------------------------- C9 ------------------------------------ *)

(* close() was called on a bound socket and no connect() called since has bound *)
ClosedNoReconnect ==
  \E c \in Sockets :
    /\ sockState[c] = "closed"
    /\ \A s \in Sockets : s > c => sockState[s] # "bound"

(* C9, as stated: from a close() on a Connected instance until a new connect()
   succeeds, no inbound datagram is dispatched and every send raises NotConnected
   and hands no datagram to a socket. *)
C9_Close ==
  [][ClosedNoReconnect =>
       /\ messageEvents' = messageEvents
       /\ \A a \in Addresses, args \in CallArgs :
            Send(a, args) => (lastErr' = "NotConnected" /\ sent' = sent)]_vars

(* ------------------------------- C10 ----------------------------------- *)

(* every open socket of the instance is its current one *)
NoLeak == \A s \in Sockets : sockState[s] \in {"binding", "bound", "unbound"} => s = socket

(* C10, as stated: a query that was unresolved when close() was called stays
   unresolved until its deadline and then fails with Timeout.  (Stated for
   queries issued on a bound socket and transmitted, in runs in which no socket
   other than the current one is open.) *)
C10_Original ==
  [][\A q \in Issued :
       (NoLeak /\ AllRegular /\ Pending(q) /\ queries[q].closedPending) =>
         (queries'[q].state = "pending" \/ TimesOut(q))]_vars

(* what of a query is settled state: everything but the closedPending mark *)
Settlement(r) == <<r.state, r.error, r.result, r.calls, r.timer, r.deadline>>

(* C10, amended: close() itself leaves every query, timer and pending record as
   it is; a query that was unresolved when close() was called is afterwards
   either rejected with Timeout, no earlier than its deadline, or resolved by a
   matching datagram that a still or again bound socket of the instance
   dispatches; it is never rejected otherwise, and it is eventually settled. *)
C10_Amended ==
  /\ [][Close =>
          /\ responseHandlers' = responseHandlers
          /\ \A q \in Issued : Settlement(queries'[q]) = Settlement(queries[q])]_vars
  /\ [][\A q \in Issued :
          (Pending(q) /\ queries[q].closedPending) =>
            \/ queries'[q].state = "pending"
            \/ TimesOut(q)
            \/ /\ queries'[q].state = "resolved"
               /\ \E s \in Sockets, d \in Decoded :
                    Dispatched(s, d) /\ d.m.address = queries[q].address]_vars
  /\ \A q \in 1..MaxQueries :
       (Pending(q) /\ queries[q].closedPending) ~> (q \in Issued /\ ~Pending(q))

C10_Witness ==
  \E q \in Issued :
    /\ queries[q].closedPending
    /\ queries[q].conn
    /\ queries[q].error = "Timeout"

(* ------------------------------- C11 ----------------------------------- *)

(* C11: whatever requests are pending and whatever the listeners do, the receive
   callback emits for a datagram that decodes exactly one "message" event, first
   of all and with the decoded Message as its payload; and every datagram that
   resolved a query was announced by a "message" event as well. *)
C11_MessageEvent ==
  /\ \A d \in Decodable, thr \in BOOLEAN :
       /\ CountEvents(Emitted(d, thr), "message") = 1
       /\ Emitted(d, thr)[1] = MessageEvent(Msg(d))
  /\ Cardinality({q \in Issued : queries[q].state = "resolved"}) <= messageEvents

(* two datagrams were received, one resolved the only query and one matched nothing *)
C11_Witness ==
  /\ messageEvents = 2
  /\ Len(queries) = 1
  /\ queries[1].conn
  /\ queries[1].state = "resolved"
  /\ queries[1].calls = 1

(* ------------------------------- C12 ----------------------------------- *)

(* C12: a receive of a datagram that decodes to an address with no pending
   request, with listeners of "message" that return normally, emits "message"
   exactly once and nothing else, lets no exception leave the callback (with or
   without a listener of "error"), and leaves the pending requests, the queries
   and their timers as they are. *)
C12_Unsolicited ==
  [][\A s \in Bound, d \in Decodable :
       (~MapHas(responseHandlers, d.m.address) /\ Receive(s, d, FALSE, TRUE)) =>
         /\ messageEvents' = messageEvents + 1
         /\ Emitted(d, FALSE) = <<MessageEvent(Msg(d))>>
         /\ lastErr' = "none"
         /\ Escapes(d, FALSE, FALSE) = "none"
         /\ responseHandlers' = responseHandlers
         /\ queries' = queries]_vars

(* a datagram was received while a query to another address was waiting, and the
   query still waits with its timer armed *)
C12_Witness ==
  /\ messageEvents >= 1
  /\ lastErr = "none"
  /\ \E q \in Issued :
       /\ Pending(q) /\ InSlot(q)
       /\ queries[q].conn /\ queries[q].transmitted
       /\ queries[q].timer = "armed"
       /\ \A p \in Issued : queries[p].calls = 0

(* ------------------------------- C13 ----------------------------------- *)

(* C13, as stated: a receive of a datagram that fails to decode settles no
   pending request and lets no exception leave the receive callback. *)
C13_Malformed ==
  [][\A s \in Sockets, d \in Decoded, lis \in BOOLEAN :
       (~d.m.ok /\ Receive(s, d, FALSE, lis)) =>
         /\ lastErr' = "none"
         /\ responseHandlers' = responseHandlers
         /\ queries' = queries]_vars

(* ------------------------------- C14 ----------------------------------- *)

(* C14: a ping() that has returned gave true only if its query to "/live/test"
   was resolved with a reply whose first argument is the string "ok", and false
   only if the query was rejected (not connected, timed out) or was resolved
   with another first argument or none; it never ends with an error. *)
C14_Ping ==
  \A k \in 1..Len(pings) :
    LET q == pings[k].q IN
    /\ pings[k].ret \in {"pending", "true", "false"}
    /\ pings[k].ret = "true" =>
         /\ q \in Issued
         /\ queries[q].address = PingAddress
         /\ queries[q].state = "resolved"
         /\ queries[q].result.address = PingAddress
         /\ queries[q].result.args # <<>>
         /\ queries[q].result.args[1] = [t |-> "str", v |-> <<111, 107>>]
    /\ pings[k].ret = "false" =>
         \/ q = 0
         \/ queries[q].state = "rejected" /\ queries[q].error = "Timeout"
         \/ /\ queries[q].state = "resolved"
            /\ \/ queries[q].result.args = <<>>
               \/ queries[q].result.args[1] # [t |-> "str", v |-> <<111, 107>>]

(* one ping returned true and another one false after its query timed out *)
C14_Witness ==
  /\ Len(pings) = 2
  /\ \E k, j \in 1..2 :
       /\ pings[k].ret = "true"
       /\ pings[j].ret = "false"
       /\ pings[j].q # 0
       /\ queries[pings[j].q].error = "Timeout"

(* ------------------------------- C15 ----------------------------------- *)

(* C15: with two clients on different receive ports, a datagram received by one
   of them leaves every query of the other as it is (not resolved, not timed
   out) and removes nothing from the other's pending requests, also when both
   have a request pending under the datagram's address. *)
C15_Isolation ==
  [][receivePort[1] # receivePort[2] =>
       \A s \in Bound, d \in Decodable :
         Receive(s, d, FALSE, TRUE) =>
           /\ parked'.responseHandlers = parked.responseHandlers
           /\ \A q \in Issued : queries[q].inst # cur => queries'[q] = queries[q]]_vars

(* both clients are bound, on different ports, each has queried the same address,
   and a datagram has resolved the query of one while the other still waits *)
C15_Witness ==
  /\ receivePort[1] # receivePort[2]
  /\ \E s \in Sockets : sockState[s] = "bound"
  /\ \E s \in Sockets : parked.sockState[s] = "bound"
  /\ Len(queries) = 2
  /\ queries[1].inst # queries[2].inst
  /\ queries[1].address = queries[2].address
  /\ queries[1].conn /\ queries[2].conn
  /\ \E q, p \in 1..2 :
       /\ queries[q].state = "resolved"
       /\ queries[p].state = "pending"
       /\ queries[p].timer = "armed"
       /\ queries[p].inst # cur
       /\ [address |-> queries[p].address, q |-> p] \in parked.responseHandlers

(* ------------------------------- C16 ----------------------------------- *)

(* C16, as stated: two clients constructed with all options but the host
   defaulted can be connected at the same time, each connect() succeeding:
   whenever the one connect of such a client is under way, its bind can succeed. *)
C16_AllConnect ==
  (\A i \in Instances : receivePort[i] = DefaultReceivePort) =>
    \A s \in Sockets : sockState[s] = "binding" => PortFree

(* ------------------------------- C17 ----------------------------------- *)

(* the exponent of the leading bit of a number that is not 0 *)
LeadingExponent(x) == x.e + BitLen(Abs(x.m)) - 1

(* a float32 holds x exactly: at most 24 significant bits, normal exponent *)
Float32Representable(x) ==
  x.m = 0 \/ (BitLen(Abs(x.m)) <= 24 /\ LeadingExponent(x) \in -126..127)

(* the value of x is a whole number *)
IsWhole(x) == x.m = 0 \/ x.e >= 0

(* a Message as the specification admits it *)
ValidValue(x) ==
  IF x.t = "num" THEN (IsWhole(x) /\ InInt32Range(x)) \/ Float32Representable(x)
  ELSE IF x.t = "str" THEN \A i \in 1..Len(x.v) : x.v[i] # 0
  ELSE TRUE

ValidMessage(m) ==
  /\ m.address # <<>>
  /\ \A i \in 1..Len(m.address) : m.address[i] # 0
  /\ \A i \in 1..Len(m.args) : ValidValue(m.args[i])

(* C17, as stated: Encode accepts every valid Message, and decoding what it
   returned gives the same address and the same arguments, equal in value and
   type position by position. *)
C17_RoundTrip ==
  (codec.phase \in {"encoded", "decoded"} /\ ValidMessage(codec.msg)) =>
    /\ codec.ok
    /\ codec.phase = "decoded" => codec.out = codec.msg

(* ------------------------------- C18 ----------------------------------- *)

(* C18, as stated: Decode returns a Message for every buffer, truncated or not. *)
C18_DecodeTotal == codec.phase = "parsed" => codec.ok

(* ------------------------------- C19 ----------------------------------- *)

(* the length of a NUL-terminated segment padded to a multiple of 4 *)
SegLen(s) == 4 * ((Len(s) \div 4) + 1)

(* buf holds, from offset pos on, the bytes of s, then zero bytes up to the next
   multiple of 4, at least one *)
SegmentAt(buf, pos, s) ==
  /\ pos % 4 = 0
  /\ pos + SegLen(s) <= Len(buf)
  /\ \A i \in 1..Len(s) : buf[pos + i] = s[i]
  /\ \A i \in (Len(s) + 1)..SegLen(s) : buf[pos + i] = 0

(* the payloads of args[i..] lie in buf from offset pos to its end, every string
   as a padded segment and every number in 4 bytes *)
RECURSIVE PayloadsAt(_, _, _, _)
PayloadsAt(buf, pos, args, i) ==
  IF i > Len(args) THEN pos = Len(buf)
  ELSE IF args[i].t = "str"
    THEN SegmentAt(buf, pos, args[i].v) /\ PayloadsAt(buf, pos + SegLen(args[i].v), args, i + 1)
  ELSE IF args[i].t = "num" THEN PayloadsAt(buf, pos + 4, args, i + 1)
  ELSE PayloadsAt(buf, pos, args, i + 1)

(* the type-tag string of buf, which starts after the address segment *)
TagsOf(buf, m) == SubSeq(buf, SegLen(m.address) + 1, SegLen(m.address) + 1 + Len(m.args))

(* C19: for every address and argument list that Encode accepts, the length of
   the buffer is a multiple of 4, and the address, the type-tag string and every
   string payload are NUL-terminated and padded with zero bytes to a multiple of
   4, one after the other up to the end of the buffer. *)
C19_Padding ==
  (codec.phase = "encoded" /\ codec.ok) =>
    /\ Len(codec.buf) % 4 = 0
    /\ SegmentAt(codec.buf, 0, codec.msg.address)
    /\ Len(codec.buf) >= SegLen(codec.msg.address) + 1 + Len(codec.msg.args)
    /\ SegmentAt(codec.buf, SegLen(codec.msg.address), TagsOf(codec.buf, codec.msg))
    /\ PayloadsAt(codec.buf, SegLen(codec.msg.address) + SegLen(TagsOf(codec.buf, codec.msg)),
                  codec.msg.args, 1)

(* an encoded Message whose address fills its segment up to the terminator, with
   a string of 4 bytes and the empty string as arguments *)
C19_Witness ==
  /\ codec.phase = "encoded"
  /\ codec.ok
  /\ Len(codec.msg.address) = 3
  /\ codec.msg.args = <<StrVal(<<97, 98, 99, 100>>), StrVal(<<>>)>>
  /\ Len(codec.buf) = 20

(* ------------------------------- C20 ----------------------------------- *)

(* C20, as stated: Encode gives every numeric argument the tag i when its value
   is a whole number and the tag f otherwise, and a whole number comes back from
   Decode as the same whole number. *)
C20_Classification ==
  (codec.phase \in {"encoded", "decoded"}) =>
    /\ codec.ok
    /\ \A i \in 1..Len(codec.msg.args) :
         codec.msg.args[i].t = "num" =>
           /\ TagsOf(codec.buf, codec.msg)[i + 1] =
                (IF IsWhole(codec.msg.args[i]) THEN TagI ELSE TagF)
           /\ (codec.phase = "decoded" /\ IsWhole(codec.msg.args[i])) =>
                codec.out.args[i] = codec.msg.args[i]

(* ------------------ one client and several senders -------------------- *)

SenderNext ==
  \/ Created = {} /\ Connect
  \/ \E s \in Sockets : BindOk(s)
  \/ \E a \in Addresses : Query(a, <<Num(1, 0)>>)
  \/ \E q \in Issued : TimerFire(q)
  \/ Tick
  \/ \E sender \in Senders, s \in Sockets, d \in Decodable : ReceiveFrom(sender, s, d, FALSE, TRUE)

SenderSpec == Init /\ [][SenderNext]_vars

(* ------------------- Song: property-change listeners ------------------- *)

SongProps == {"tempo", "isPlaying"}
SongCallbacks == {1, 2}

(* this.listeners is a Map from a property to the Set of its callbacks, here a
   set of [prop, callbacks] entries with one entry per property *)
ListenersHas(l, prop) == \E e \in l : e.prop = prop

(* this.listeners.get(prop)!.add(callback), after the set of an empty Set when the
   property has no entry: a Set holds a callback once *)
ListenersAdd(l, prop, callback) ==
  IF ListenersHas(l, prop)
    THEN {IF e.prop = prop THEN [e EXCEPT !.callbacks = @ \cup {callback}] ELSE e : e \in l}
    ELSE l \cup {[prop |-> prop, callbacks |-> {callback}]}

(* this.listeners.get(prop)?.delete(callback), then the delete of the entry when
   its Set is empty *)
ListenersDelete(l, prop, callback) ==
  LET removed == {IF e.prop = prop THEN [e EXCEPT !.callbacks = @ \ {callback}] ELSE e : e \in l}
  IN  {e \in removed : ~(e.prop = prop /\ e.callbacks = {})}

(* startPolling: setInterval arms a new timer and pollInterval refers to it *)
startPolling(s) ==
  [s EXCEPT !.pollInterval = s.started + 1,
            !.timers = @ \cup {s.started + 1},
            !.started = @ + 1]

(* mutant of stopPolling: the field is reset and the timer is not cleared *)
stopPolling_KeepsTimer(s) == [s EXCEPT !.pollInterval = 0]

(* stopPolling: when pollInterval is set, clearInterval and null *)
stopPolling(s) ==
  IF s.pollInterval # 0
    THEN [s EXCEPT !.timers = @ \ {s.pollInterval}, !.pollInterval = 0]
    ELSE s

(* addListener(prop, callback): registers, starts polling when pollInterval is
   null, returns the unsubscribe function of (prop, callback) *)
addListener(prop, callback) ==
  /\ song.pollInterval = 0 => song.started < MaxPolls
  /\ LET added == [song EXCEPT !.listeners = ListenersAdd(@, prop, callback),
                               !.unsubscribes = @ \cup {<<prop, callback>>}]
     IN  song' = IF added.pollInterval = 0 THEN startPolling(added) ELSE added
  /\ UNCHANGED <<socket, sockState, responseHandlers, queries, now, sent, lastErr,
                 messageEvents, pings, codec, cur, parked, receivePort, rinfo>>

(* a call of the function addListener(prop, callback) returned, which stays
   callable after its first call *)
Unsubscribe(prop, callback) ==
  /\ <<prop, callback>> \in song.unsubscribes
  /\ LET deleted == [song EXCEPT !.listeners = ListenersDelete(@, prop, callback)]
     IN  song' = IF deleted.listeners = {} THEN stopPolling(deleted) ELSE deleted
  /\ UNCHANGED <<socket, sockState, responseHandlers, queries, now, sent, lastErr,
                 messageEvents, pings, codec, cur, parked, receivePort, rinfo>>

SongNext ==
  \E prop \in SongProps, callback \in SongCallbacks :
    \/ addListener(prop, callback)
    \/ Unsubscribe(prop, callback)

SongSpec == Init /\ [][SongNext]_vars

(* ------------------------------- C21 ----------------------------------- *)

(* args without its booleans *)
RECURSIVE WithoutBooleans(_)
WithoutBooleans(args) ==
  IF args = <<>> THEN <<>>
  ELSE IF Head(args).t = "bool" THEN WithoutBooleans(Tail(args))
  ELSE <<Head(args)>> \o WithoutBooleans(Tail(args))

(* what follows the address and the type-tag string in the encoding of m *)
PayloadOf(buf, m) ==
  SubSeq(buf, SegLen(m.address) + SegLen(TagsOf(buf, m)) + 1, Len(buf))

(* C21: in what Encode returns a boolean is the tag T or F and no payload byte
   (the payload is that of the same arguments without the booleans), and Decode
   gives back every boolean and, from the right offset, every argument after a
   boolean. *)
C21_Boolean ==
  /\ (codec.phase = "encoded" /\ codec.ok) =>
       /\ \A i \in 1..Len(codec.msg.args) :
            codec.msg.args[i].t = "bool" =>
              TagsOf(codec.buf, codec.msg)[i + 1] =
                (IF codec.msg.args[i] = BoolVal(TRUE) THEN 84 ELSE 70)
       /\ LET m == [address |-> codec.msg.address, args |-> WithoutBooleans(codec.msg.args)]
          IN  PayloadOf(codec.buf, codec.msg) = PayloadOf(buildOSCMessage(m.address, m.args).buf, m)
  /\ (codec.phase = "decoded" /\ ValidMessage(codec.msg)) =>
       /\ codec.ok
       /\ Len(codec.out.args) = Len(codec.msg.args)
       /\ \A i \in 1..Len(codec.msg.args) :
            (\E j \in 1..i : codec.msg.args[j].t = "bool") =>
              codec.out.args[i] = codec.msg.args[i]

(* a Message was decoded that has a string after a boolean *)
C21_Witness ==
  /\ codec.phase = "decoded"
  /\ codec.ok
  /\ codec.msg.args = <<BoolVal(TRUE), StrVal(<<97, 98, 99>>)>>
  /\ codec.out.args = codec.msg.args

(* ------------------------------- C22 ----------------------------------- *)

(* C22: a send or query that returns without an error hands exactly one datagram
   to the socket, a send or query that fails hands none, and no other step (a
   timer, a received datagram, connect, close) hands one: nothing is sent again. *)
C22_OneDatagram ==
  [][/\ \A a \in Addresses, args \in CallArgs :
          (Send(a, args) \/ Query(a, args)) =>
            sent' = sent + (IF lastErr' = "none" THEN 1 ELSE 0)
     /\ sent' # sent =>
          \E a \in Addresses, args \in CallArgs : Send(a, args) \/ Query(a, args)]_vars

(* two queries and one send were accepted and three datagrams were handed over,
   and one of the queries has timed out since *)
C22_Witness ==
  /\ sent = 3
  /\ Transmitted = 2
  /\ \E q \in Issued : queries[q].state = "rejected" /\ queries[q].error = "Timeout"

(* ------------------------------- C23 ----------------------------------- *)

(* query q was rejected by its own timer *)
TimedOut(q) == queries[q].state = "rejected" /\ queries[q].error = "Timeout"

(* C23: once a query is resolved or has timed out, the map of pending requests
   holds no record that this query created. *)
C23_Removed ==
  \A q \in Issued :
    (queries[q].state = "resolved" \/ TimedOut(q)) => ~InSlot(q)

(* of two queries one was resolved by a reply and the other has timed out *)
C23_Witness ==
  /\ Len(queries) = 2
  /\ \E q, p \in Issued :
       /\ queries[q].state = "resolved"
       /\ queries[q].timer = "cleared"
       /\ TimedOut(p)
       /\ queries[p].timer = "fired"

(* ------------------------------- C24 ----------------------------------- *)

(* C24, as stated: a query that is not settled has its timer armed, a resolved
   query has its timer cleared, and a query that is settled and not resolved
   was rejected by its own timer: nothing but a matching reply or the timer
   settles a query. *)
C24_Timer ==
  \A q \in Issued :
    /\ queries[q].state = "pending" => queries[q].timer = "armed"
    /\ queries[q].state = "resolved" => queries[q].timer = "cleared"
    /\ queries[q].state = "rejected" => TimedOut(q) /\ queries[q].timer = "fired"

(* ------------------------------- C25 ----------------------------------- *)

(* the (property, callback) pairs the poll would notify *)
Registered == {pc \in SongProps \X SongCallbacks :
                 \E e \in song.listeners : e.prop = pc[1] /\ pc[2] \in e.callbacks}

(* C25: after every sequence of addListener calls and calls of the functions they
   returned, an interval timer is armed if and only if at least one listener is
   registered, and it is the one timer pollInterval refers to. *)
C25_Polling ==
  /\ song.timers # {} <=> Registered # {}
  /\ song.timers = IF song.pollInterval = 0 THEN {} ELSE {song.pollInterval}

(* polling was stopped and started again: one listener is registered and polled,
   and the unsubscribe function of a listener that is registered no more is
   still there to be called a second time *)
C25_Witness ==
  /\ song.started = 2
  /\ song.pollInterval = 2
  /\ Cardinality(Registered) = 1
  /\ \E pc \in song.unsubscribes : pc \notin Registered

(* ------------------------------- C26 ----------------------------------- *)

(* C26, as stated: when the timer of query q fires, the record of every other
   query that is still pending stays in the map, also a record stored under
   q's address by a later query whose own deadline has not come. *)
C26_OwnRecordOnly ==
  [][\A q \in Issued :
       TimerFire(q) =>
         \A p \in Issued \ {q} :
           (Pending(p) /\ InSlot(p) /\ now < queries[p].deadline) =>
             [address |-> queries[p].address, q |-> p] \in responseHandlers']_vars

(* ------------------------------- C27 ----------------------------------- *)

(* C27, as stated: when a datagram is received whose address has a pending
   request, the query of that request is resolved in the same step, also when a
   listener of the "message" event throws. *)
C27_ListenerThrows ==
  [][\A s \in Bound, d \in Decodable :
       (/\ MapHas(responseHandlers, d.m.address)
        /\ Pending(MapGet(responseHandlers, d.m.address))
        /\ \E errorListener \in BOOLEAN : Receive(s, d, TRUE, errorListener))
       => queries'[MapGet(responseHandlers, d.m.address)].state = "resolved"]_vars

(* ------------------------------- C28 ----------------------------------- *)

(* C28, as stated: every record in the map of pending requests belongs to a
   query that is not settled, and a query rejected because its datagram could
   not be encoded has neither a record in the map nor an armed timer. *)
C28_NoLeftover ==
  /\ \A e \in responseHandlers : queries[e.q].state = "pending"
  /\ \A q \in Issued :
       (queries[q].state = "rejected" /\ queries[q].error = "RangeError") =>
         ~InSlot(q) /\ queries[q].timer # "armed"

(* ------------------------------- C29 ----------------------------------- *)

(* the sockets that were created and not closed *)
Open == {s \in Created : sockState[s] \notin {"closed", "dropped"}}

(* C29, as stated: at most one socket of the client is open, every socket it
   created is its current one or closed, and while it has no current socket
   (after close()) none of its sockets is bound and delivering datagrams. *)
C29_OneSocket ==
  /\ Cardinality(Open) <= 1
  /\ \A s \in Created : s = socket \/ s \notin Open
  /\ socket = 0 => Bound = {}

(* ------------------------------- C30 ----------------------------------- *)

(* C30, as stated: a step in which a pending query is resolved is the receipt of
   a datagram sent by the configured remote host. *)
C30_RemoteOnly ==
  [][\A q \in Issued :
       (Pending(q) /\ queries'[q].state = "resolved") => rinfo' = Host]_vars

====
